---- MODULE Spec2Model ----
(***************************************************************************)
(* Model of pisa/pid/PID.py: get_pid_maps (lines 27-68) and the command    *)
(* line run (lines 71-107).                                                *)
(*                                                                         *)
(* Arrays are numpy float arrays.  A float is modelled as a binary         *)
(* floating-point number with Prec significant bits and round-to-nearest-  *)
(* even (float64 is the same arithmetic with 53 bits); values are          *)
(* non-negative integers, so no exponent underflow is involved.  An array  *)
(* is a sequence of rows; arrays live in a heap so that in-place updates   *)
(* (+=) and aliasing are visible.                                          *)
(***************************************************************************)
EXTENDS Integers, Sequences, FiniteSets, TLC

VARIABLES mode, reco_events, pid_table, kwargs, heap, heap_in,
          pc, err, params, ebins, czbins, reco_events_pid, pid_dict, i,
          checked, pid_service, result, outfile

vars == <<mode, reco_events, pid_table, kwargs, heap, heap_in,
          pc, err, params, ebins, czbins, reco_events_pid, pid_dict, i,
          checked, pid_service, result, outfile>>

\* Significant bits of the modelled floating-point format.
Prec == 3
\* Largest event rate of the exhaustively enumerated one-bin inputs.
MaxRate == 3

-----------------------------------------------------------------------------
(* Floating-point arithmetic *)

RECURSIVE Pow(_, _)
Pow(b, n) == IF n = 0 THEN 1 ELSE b * Pow(b, n - 1)

\* Spacing of the representable numbers around x: the least power of two q
\* with x < 2^Prec * q.
RECURSIVE Quantum(_, _)
Quantum(x, q) == IF x < Pow(2, Prec) * q THEN q ELSE Quantum(x, 2 * q)

\* Round-to-nearest, ties to even.
fl(x) ==
    LET q == Quantum(x, 1)
        m == x \div q
        r == x % q
    IN  IF 2 * r > q \/ (2 * r = q /\ m % 2 = 1) THEN (m + 1) * q ELSE m * q

fmul(a, b) == fl(a * b)
fadd(a, b) == fl(a + b)

-----------------------------------------------------------------------------
(* numpy arrays *)

Max(a, b) == IF a >= b THEN a ELSE b

Shape(a) == <<Len(a), Len(a[1])>>

\* Element (r, c) of a after broadcasting: an axis of length 1 is repeated.
At(a, r, c) == a[IF Len(a) = 1 THEN 1 ELSE r][IF Len(a[1]) = 1 THEN 1 ELSE c]

\* a * b: element-wise product with broadcasting, a new array.
Mul(a, b) ==
    [r \in 1..Max(Len(a), Len(b)) |->
        [c \in 1..Max(Len(a[1]), Len(b[1])) |-> fmul(At(a, r, c), At(b, r, c))]]

\* a += b is the element-wise sum stored into a (a keeps its shape).
\* Faulty variant of IAdd: an assignment (=) where the code has +=.
IAddMut(a, b) ==
    [r \in 1..Len(a) |-> [c \in 1..Len(a[1]) |-> At(b, r, c)]]
\* a += b.
IAdd(a, b) ==
    [r \in 1..Len(a) |-> [c \in 1..Len(a[1]) |-> fadd(a[r][c], At(b, r, c))]]

\* Faulty variant of zeros_like: np.ones_like.
ZerosLikeMut(a) == [r \in 1..Len(a) |-> [c \in 1..Len(a[1]) |-> 1]]
\* np.zeros_like(a).
zeros_like(a) == [r \in 1..Len(a) |-> [c \in 1..Len(a[1]) |-> 0]]

-----------------------------------------------------------------------------
(* Categories, heap layout *)

flavours == <<"nue_cc", "numu_cc", "nutau_cc", "nuall_nc">>
Flavs == {flavours[n] : n \in 1..4}
Idx(f) == CHOOSE n \in 1..4 : flavours[n] = f

\* Addresses of the arrays that exist before the call.
MapAddr(f) == Idx(f)
TrckAddr(f) == 4 + Idx(f)
CscdAddr(f) == 8 + Idx(f)
\* The next two free addresses, used by the two allocations of lines 45-50.
NewTrck == 13
NewCscd == 14

-----------------------------------------------------------------------------
(* Inputs: a reco event rate record, a PID table, the keyword parameters *)

\* Bin edges: one or two bins per axis, and a variant of each with the same
\* number of edges but a different edge.
Ebins(ne) == IF ne = 1 THEN <<1, 10>> ELSE <<1, 10, 100>>
Czbins(nc) == IF nc = 1 THEN <<-1, 0>> ELSE <<-1, 0, 1>>
EbinsOther == <<1, 20>>
CzbinsOther == <<-1, 1>>

\* Parameter mappings (free-form key -> value).
NoParams == [key \in {} |-> 0]
ParamMaps(keys, vals) == UNION {[S -> vals] : S \in SUBSET keys}

\* The array of shape (ne, nc) whose element (r, c) is g[r][c].
Arr(ne, nc, g) == [r \in 1..ne |-> [c \in 1..nc |-> g[r][c]]]
Const(ne, nc, v) == [r \in 1..ne |-> [c \in 1..nc |-> v]]
Arrays(ne, nc, vals) == [1..ne -> [1..nc -> vals]]

\* PID tables with scalar weights (kept as 1x1 arrays, which broadcast).
ScalarWeights ==
    { << <<1, 0>>, <<0, 1>>, <<1, 1>>, <<0, 0>> >>,
      << <<3, 2>>, <<3, 2>>, <<3, 2>>, <<3, 2>> >>,
      << <<4, 1>>, <<1, 3>>, <<1, 1>>, <<2, 5>> >>,
      << <<3, 1>>, <<1, 2>>, <<1, 0>>, <<0, 4>> >>,
      << <<1, 1>>, <<1, 1>>, <<1, 1>>, <<1, 1>> >> }

ScalarTable(w) ==
    [f \in Flavs |-> [trck |-> Const(1, 1, w[Idx(f)][1]),
                      cscd |-> Const(1, 1, w[Idx(f)][2])]]

\* A PID table with one weight per bin.
PerBinTable(ne, nc) ==
    [f \in Flavs |->
        [trck |-> [r \in 1..ne |-> [c \in 1..nc |-> (Idx(f) + 2 * r + c) % 4]],
         cscd |-> [r \in 1..ne |-> [c \in 1..nc |-> (2 * Idx(f) + r + 3 * c) % 5]]]]

\* A PID table whose track weights are one row and whose cascade weights are
\* one column, both broadcast over the map.
RowColTable(ne, nc) ==
    [f \in Flavs |->
        [trck |-> [r \in 1..1 |-> [c \in 1..nc |-> (Idx(f) + c) % 4]],
         cscd |-> [r \in 1..ne |-> [c \in 1..1 |-> (Idx(f) + 2 * r) % 3]]]]

MapRec(ne, nc, a) == [ebins |-> Ebins(ne), czbins |-> Czbins(nc), map |-> a]

Input(maps, inparams, weights, pidbins, pidparams, kw) ==
    [maps |-> maps, params |-> inparams,
     pid |-> [ebins |-> pidbins[1], czbins |-> pidbins[2],
              weights |-> weights, params |-> pidparams],
     kwargs |-> kw]

DefaultIn == [key \in {"a"} |-> 1]
DefaultPid == [key \in {"a", "b"} |-> IF key = "a" THEN 2 ELSE 3]

\* Well-formed inputs on one common binning, varied in rates and weights.
NumInputsOf(ne, nc, arrays, tables) ==
    { Input([f \in Flavs |-> MapRec(ne, nc, g[f])], DefaultIn, t,
            <<Ebins(ne), Czbins(nc)>>, DefaultPid, NoParams) :
        g \in [Flavs -> arrays], t \in tables }

NumInputs ==
    NumInputsOf(1, 1, Arrays(1, 1, 0..MaxRate),
                {ScalarTable(w) : w \in ScalarWeights})
    \cup NumInputsOf(1, 2, Arrays(1, 2, {0, 3}),
                     {ScalarTable(<< <<3, 1>>, <<1, 2>>, <<1, 0>>, <<0, 4>> >>),
                      PerBinTable(1, 2)})
    \cup NumInputsOf(2, 1, Arrays(2, 1, {0, 3}),
                     {PerBinTable(2, 1), RowColTable(2, 1)})
    \cup NumInputsOf(2, 2, {Const(2, 2, 1), Arr(2, 2, << <<0, 1>>, <<2, 3>> >>)},
                     {PerBinTable(2, 2), RowColTable(2, 2)})

\* Inputs that may lack a category (in the event rates or in the PID table)
\* and whose categories may disagree on a bin edge.
Binnings == { <<Ebins(1), Czbins(1)>>, <<EbinsOther, Czbins(1)>>,
              <<Ebins(1), CzbinsOther>> }

ErrInputs ==
    { Input([f \in Flavs \ mr |->
                [ebins |-> bn[f][1], czbins |-> bn[f][2],
                 map |-> Const(1, 1, Idx(f) % 3)]],
            DefaultIn,
            [f \in Flavs \ mp |->
                ScalarTable(<< <<4, 1>>, <<1, 3>>, <<1, 1>>, <<2, 5>> >>)[f]],
            pb, DefaultPid, NoParams) :
        bn \in [Flavs -> Binnings],
        mr \in {{}} \cup {{f} : f \in Flavs},
        mp \in {{}} \cup {{f} : f \in Flavs},
        pb \in {<<Ebins(1), Czbins(1)>>, <<EbinsOther, Czbins(1)>>} }

\* Well-formed inputs varied in the three parameter mappings.
ParamInputs ==
    { Input([f \in Flavs |-> MapRec(1, 1, Const(1, 1, 1))], ip,
            ScalarTable(<< <<1, 1>>, <<1, 1>>, <<1, 1>>, <<1, 1>> >>),
            <<Ebins(1), Czbins(1)>>, pp, kw) :
        ip \in ParamMaps({"a", "b"}, {1}),
        pp \in ParamMaps({"a", "b"}, {2, 3}),
        kw \in ParamMaps({"a", "c"}, {4}) }

Inputs == NumInputs \cup ErrInputs \cup ParamInputs

\* The heap holding the arrays of an input.
HeapOf(inp) ==
    [ad \in {MapAddr(f) : f \in DOMAIN inp.maps}
            \cup {TrckAddr(f) : f \in DOMAIN inp.pid.weights}
            \cup {CscdAddr(f) : f \in DOMAIN inp.pid.weights} |->
        IF ad <= 4 THEN inp.maps[flavours[ad]].map
        ELSE IF ad <= 8 THEN inp.pid.weights[flavours[ad - 4]].trck
        ELSE inp.pid.weights[flavours[ad - 8]].cscd]

Init ==
    \E inp \in Inputs, md \in {"call", "cli"} :
        /\ md = "cli" => inp \in ErrInputs \cup ParamInputs /\ inp.kwargs = NoParams
        /\ mode = md
        /\ reco_events =
             [maps |-> [f \in DOMAIN inp.maps |->
                          [ebins |-> inp.maps[f].ebins,
                           czbins |-> inp.maps[f].czbins,
                           map |-> MapAddr(f)]],
              params |-> inp.params]
        /\ pid_table =
             [ebins |-> inp.pid.ebins, czbins |-> inp.pid.czbins,
              maps |-> [f \in DOMAIN inp.pid.weights |->
                          [trck |-> TrckAddr(f), cscd |-> CscdAddr(f)]],
              params |-> inp.pid.params]
        /\ kwargs = inp.kwargs
        /\ heap = HeapOf(inp)
        /\ heap_in = HeapOf(inp)
        /\ pc = IF md = "cli" THEN "cli_check" ELSE "init"
        /\ err = "none"
        /\ params = NoParams
        /\ ebins = <<>>
        /\ czbins = <<>>
        /\ reco_events_pid = <<>>
        /\ pid_dict = <<>>
        /\ i = 1
        /\ checked = <<>>
        /\ pid_service = (md = "call")
        /\ result = <<>>
        /\ outfile = <<>>

-----------------------------------------------------------------------------
(* Collaborators imported from pisa.utils and pisa.pid.PIDService *)

\* The (ebins, czbins) pairs of the maps of a record.
BinningsOf(d) == {<<d.maps[f].ebins, d.maps[f].czbins>> : f \in DOMAIN d.maps}

\* The common binning of the maps of d, after confirming that they all agree.
CommonBinning(d) ==
    IF Cardinality(BinningsOf(d)) = 1
    THEN LET bn == CHOOSE x \in BinningsOf(d) : TRUE
         IN  [err |-> "none", ebins |-> bn[1], czbins |-> bn[2]]
    ELSE [err |-> "BinningMismatch", ebins |-> <<>>, czbins |-> <<>>]

\* Variant of get_binning: the binning of the first map, nothing compared.
FirstBinning(d) ==
    LET f == CHOOSE g \in DOMAIN d.maps : \A h \in DOMAIN d.maps : Idx(g) <= Idx(h)
    IN  [err |-> "none", ebins |-> d.maps[f].ebins, czbins |-> d.maps[f].czbins]

get_binning(d) == CommonBinning(d)

check_binning(d) == CommonBinning(d)

\* PIDService(pid_dict, ebins, czbins): the table must be on the given binning.
PIDService(t, eb, cz) ==
    IF t.ebins = eb /\ t.czbins = cz THEN "none" ELSE "BinningMismatch"

\* get_params(): the parameters of the running call.
get_params == kwargs

\* add_params(setA, setB): the keys of both; setA's value on a collision.
add_params(setA, setB) ==
    [key \in DOMAIN setA \cup DOMAIN setB |->
        IF key \in DOMAIN setA THEN setA[key] ELSE setB[key]]

-----------------------------------------------------------------------------
(* get_pid_maps, lines 27-68 *)

inputsV == <<mode, reco_events, pid_table, kwargs, heap_in>>

\* An exception leaves the call (and, uncaught, the script).
Raise(e) ==
    /\ pc' = "failed"
    /\ err' = e
    /\ UNCHANGED <<inputsV, heap, params, ebins, czbins, reco_events_pid,
                   pid_dict, i, checked, pid_service, result, outfile>>

\* Lines 45 and 48: the addresses of the two new arrays.
\* TrckMapAlias is a faulty variant of TrckMap: the input map itself.
TrckMapAlias == MapAddr("nue_cc")
TrckMap == NewTrck
CscdMap == NewCscd

\* Lines 45 and 48: np.zeros_like(reco_events['nue_cc']['map']), twice,
\* in the heap h.
AllocMaps(h) ==
    [ad \in DOMAIN h \cup {TrckMap, CscdMap} |->
        IF ad \in {TrckMap, CscdMap}
        THEN zeros_like(h[reco_events.maps["nue_cc"].map])
        ELSE h[ad]]

\* Line 51: 'params': add_params(params, reco_events['params']).
\* MergedParamsPid is a variant that merges the PID table's params instead.
MergedParamsPid(p) == add_params(pid_table.params, reco_events.params)
MergedParams(p) == add_params(p, reco_events.params)

\* Lines 45-52: the return dict.
\* ReturnDictSwapped is a faulty variant: ebins and czbins swapped in 'trck'.
ReturnDictSwapped(p, eb, cz) ==
    [trck |-> [map |-> TrckMap, czbins |-> eb, ebins |-> cz],
     cscd |-> [map |-> CscdMap, czbins |-> cz, ebins |-> eb],
     params |-> MergedParams(p)]
ReturnDict(p, eb, cz) ==
    [trck |-> [map |-> TrckMap, czbins |-> cz, ebins |-> eb],
     cscd |-> [map |-> CscdMap, czbins |-> cz, ebins |-> eb],
     params |-> MergedParams(p)]

\* Lines 40-52.
InitReturnDict ==
    /\ pc = "init"
    /\ LET p == get_params
           b == get_binning(reco_events)
       IN  IF b.err # "none" THEN Raise(b.err)
           ELSE IF "nue_cc" \notin DOMAIN reco_events.maps THEN Raise("KeyError")
           ELSE /\ params' = p
                /\ ebins' = b.ebins
                /\ czbins' = b.czbins
                /\ heap' = AllocMaps(heap)
                /\ reco_events_pid' = <<ReturnDict(p, b.ebins, b.czbins)>>
                /\ pc' = "get_maps"
                /\ UNCHANGED <<inputsV, err, pid_dict, i, checked, pid_service,
                               result, outfile>>

\* Line 56: pid_dict = pid_service.get_maps().
GetMaps ==
    /\ pc = "get_maps"
    /\ pid_dict' = pid_table.maps
    /\ pc' = "loop"
    /\ UNCHANGED <<inputsV, heap, err, params, ebins, czbins, reco_events_pid,
                   i, checked, pid_service, result, outfile>>

\* Lines 60-63: the two contributions of a category, new arrays, read from
\* the heap h.
event_map(h, flav) == h[reco_events.maps[flav].map]
to_trck_map(h, flav) == Mul(event_map(h, flav), h[pid_dict[flav].trck])
\* ToCscdMapMut is a faulty variant of to_cscd_map: the track weights again.
ToCscdMapMut(h, flav) == Mul(event_map(h, flav), h[pid_dict[flav].trck])
to_cscd_map(h, flav) == Mul(event_map(h, flav), h[pid_dict[flav].cscd])

\* Lines 65-66: the two in-place additions, in the heap h.
\* AccumulateMut is a faulty variant: 'cscd' accumulates to_trck_map too.
AccumulateMut(h, out, flav) ==
    LET h1 == [h EXCEPT ![out.trck.map] = IAdd(h[out.trck.map], to_trck_map(h, flav))]
    IN  [h1 EXCEPT ![out.cscd.map] = IAdd(h1[out.cscd.map], to_trck_map(h1, flav))]
Accumulate(h, out, flav) ==
    LET h1 == [h EXCEPT ![out.trck.map] = IAdd(h[out.trck.map], to_trck_map(h, flav))]
    IN  [h1 EXCEPT ![out.cscd.map] = IAdd(h1[out.cscd.map], to_cscd_map(h1, flav))]

\* Lines 59-66 as a function: the heap after the loop has run over the
\* categories order[n..] from the heap h.
RECURSIVE RunLoop(_, _, _, _)
RunLoop(h, out, order, n) ==
    IF n > Len(order) THEN h
    ELSE RunLoop(Accumulate(h, out, order[n]), out, order, n + 1)

\* Lines 59-66: one iteration of the loop over flavours.
\* LoopBodySkip is a faulty variant: an absent category is skipped silently.
LoopBodySkip ==
    /\ pc = "loop"
    /\ i <= Len(flavours)
    /\ LET flav == flavours[i]
       IN  /\ heap' = IF flav \notin DOMAIN reco_events.maps \/ flav \notin DOMAIN pid_dict
                      THEN heap
                      ELSE Accumulate(heap, reco_events_pid[1], flav)
           /\ i' = i + 1
           /\ UNCHANGED <<inputsV, pc, err, params, ebins, czbins,
                          reco_events_pid, pid_dict, checked, pid_service,
                          result, outfile>>
LoopBody ==
    /\ pc = "loop"
    /\ i <= Len(flavours)
    /\ LET flav == flavours[i]
       IN  IF flav \notin DOMAIN reco_events.maps \/ flav \notin DOMAIN pid_dict
           THEN Raise("KeyError")
           ELSE /\ heap' = Accumulate(heap, reco_events_pid[1], flav)
                /\ i' = i + 1
                /\ UNCHANGED <<inputsV, pc, err, params, ebins, czbins,
                               reco_events_pid, pid_dict, checked, pid_service,
                               result, outfile>>

\* Line 68: return reco_events_pid.
Return ==
    /\ pc = "loop"
    /\ i > Len(flavours)
    /\ result' = reco_events_pid
    /\ pc' = IF mode = "cli" THEN "cli_save" ELSE "done"
    /\ UNCHANGED <<inputsV, heap, err, params, ebins, czbins, reco_events_pid,
                   pid_dict, i, checked, pid_service, outfile>>

-----------------------------------------------------------------------------
(* The command line run, lines 97-107 *)

\* Line 98: ebins, czbins = check_binning(args.reco_event_maps).
CheckBinning ==
    /\ pc = "cli_check"
    /\ LET b == check_binning(reco_events)
       IN  IF b.err # "none" THEN Raise(b.err)
           ELSE /\ checked' = <<b.ebins, b.czbins>>
                /\ pc' = "cli_service"
                /\ UNCHANGED <<inputsV, heap, err, params, ebins, czbins,
                               reco_events_pid, pid_dict, i, pid_service,
                               result, outfile>>

\* Line 101: pid_service = PIDService(args.pid_dict, ebins, czbins).
InitService ==
    /\ pc = "cli_service"
    /\ LET e == PIDService(pid_table, checked[1], checked[2])
       IN  IF e # "none" THEN Raise(e)
           ELSE /\ pid_service' = TRUE
                /\ pc' = "init"
                /\ UNCHANGED <<inputsV, heap, err, params, ebins, czbins,
                               reco_events_pid, pid_dict, i, checked, result,
                               outfile>>

\* What to_json writes: the maps themselves, not their addresses.
Content(out) ==
    [trck |-> [map |-> heap[out.trck.map], czbins |-> out.trck.czbins,
               ebins |-> out.trck.ebins],
     cscd |-> [map |-> heap[out.cscd.map], czbins |-> out.cscd.czbins,
               ebins |-> out.cscd.ebins],
     params |-> out.params]

\* Line 107: to_json(event_rate_pid, args.outfile).
\* ToJsonEarly is a faulty variant: the write may come before get_pid_maps.
ToJsonEarly == {"cli_save", "init"}
ToJsonAt == {"cli_save"}
ToJson ==
    /\ pc \in ToJsonAt
    /\ outfile' = Append(outfile, IF result = <<>> THEN <<>> ELSE Content(result[1]))
    /\ pc' = "exit"
    /\ UNCHANGED <<inputsV, heap, err, params, ebins, czbins, reco_events_pid,
                   pid_dict, i, checked, pid_service, result>>

Next ==
    \/ CheckBinning
    \/ InitService
    \/ InitReturnDict
    \/ GetMaps
    \/ LoopBody
    \/ Return
    \/ ToJson

Spec == Init /\ [][Next]_vars

-----------------------------------------------------------------------------
(* Vocabulary of the properties *)

Returned == result # <<>>
Out == result[1]
TrckOut == heap[Out.trck.map]
CscdOut == heap[Out.cscd.map]

AllPresent == DOMAIN reco_events.maps = Flavs /\ DOMAIN pid_table.maps = Flavs
SomeMissing == DOMAIN reco_events.maps # Flavs \/ DOMAIN pid_table.maps # Flavs
OneBinning == Cardinality(BinningsOf(reco_events)) = 1
PidOnBinning ==
    \A f \in DOMAIN reco_events.maps :
        /\ pid_table.ebins = reco_events.maps[f].ebins
        /\ pid_table.czbins = reco_events.maps[f].czbins

\* The values the caller passed in.
InMap(f) == heap_in[MapAddr(f)]
InWeight(f, which) == heap_in[IF which = "trck" THEN TrckAddr(f) ELSE CscdAddr(f)]
Rows == 1..Len(InMap("nue_cc"))
Cols == 1..Len(InMap("nue_cc")[1])

\* The contribution of category f to bin (r, c) of the output `which`.
CatProd(f, which, r, c) == fl(InMap(f)[r][c] * At(InWeight(f, which), r, c))

\* The floating-point sum of the contributions of the first n categories of
\* order, taken from zero in that order.
RECURSIVE Partial(_, _, _, _, _)
Partial(order, which, r, c, n) ==
    IF n = 0 THEN 0
    ELSE fl(Partial(order, which, r, c, n - 1) + CatProd(order[n], which, r, c))

-----------------------------------------------------------------------------
(* C1 *)

\* C1: for an input with all four categories on one binning and a PID table
\* with weights for all four, a direct call returns, the two maps have the
\* shape of the input maps, and in every bin trck is the sum over the four
\* categories of event_map * w_track and cscd the sum of event_map * w_cascade
\* (sums and products of the array arithmetic, from zero, in the order of
\* flavours).
C1_WeightedSums ==
    AllPresent /\ OneBinning =>
        /\ mode = "call" => pc # "failed"
        /\ Returned =>
            /\ \A f \in Flavs : Shape(TrckOut) = Shape(InMap(f))
                                /\ Shape(CscdOut) = Shape(InMap(f))
            /\ \A r \in Rows, c \in Cols :
                /\ TrckOut[r][c] = Partial(flavours, "trck", r, c, 4)
                /\ CscdOut[r][c] = Partial(flavours, "cscd", r, c, 4)

\* A returned 2x2 result with a bin whose track and cascade sums differ and
\* to which at least three categories contribute.
C1_Witness ==
    /\ Returned /\ AllPresent /\ Shape(TrckOut) = <<2, 2>>
    /\ \E r \in Rows, c \in Cols :
        /\ TrckOut[r][c] # CscdOut[r][c]
        /\ TrckOut[r][c] > 0 /\ CscdOut[r][c] > 0
        /\ Cardinality({f \in Flavs : CatProd(f, "trck", r, c) > 0}) >= 3

-----------------------------------------------------------------------------
(* C2 *)

\* C2: when the four category maps are all there and do not share one
\* binning, the call never returns a result and ends in BinningMismatch, in a
\* direct call of get_pid_maps as well as in the command line run.
C2_BinningMismatch ==
    DOMAIN reco_events.maps = Flavs /\ ~OneBinning =>
        /\ ~Returned
        /\ pc \notin {"get_maps", "loop", "done", "cli_save", "exit"}
        /\ reco_events_pid = <<>>
        /\ pc = "failed" => err = "BinningMismatch"
        /\ pc = "failed" \/ ENABLED Next

\* A direct call (no check_binning before it) that failed with
\* BinningMismatch because exactly one category is on another binning.
C2_Witness ==
    /\ mode = "call" /\ pc = "failed" /\ err = "BinningMismatch"
    /\ DOMAIN reco_events.maps = Flavs
    /\ \E f \in Flavs :
        /\ reco_events.maps[f].ebins # reco_events.maps["nue_cc"].ebins
        /\ \A g \in Flavs \ {f} :
              reco_events.maps[g].ebins = reco_events.maps["nue_cc"].ebins

-----------------------------------------------------------------------------
(* C3 *)

\* C3: when a category is absent from the event rates or from the PID table,
\* the call never returns a result and ends in an error, whichever category
\* it is and however many were accumulated before; the error is the missing
\* key's (KeyError) unless a binning check failed first.
C3_MissingCategory ==
    SomeMissing =>
        /\ ~Returned
        /\ pc \notin {"done", "cli_save", "exit"}
        /\ outfile = <<>>
        /\ pc = "failed" \/ ENABLED Next
        /\ pc = "failed" /\ OneBinning /\ (mode = "cli" => PidOnBinning)
              => err = "KeyError"

\* The last category is absent from the PID table only: the call failed with
\* KeyError after three categories had been accumulated.
C3_Witness ==
    /\ pc = "failed" /\ err = "KeyError" /\ i = 4
    /\ DOMAIN reco_events.maps = Flavs
    /\ DOMAIN pid_table.maps = Flavs \ {"nuall_nc"}
    /\ reco_events_pid # <<>>
    /\ heap[reco_events_pid[1].trck.map][1][1] > 0
    /\ ~Returned

-----------------------------------------------------------------------------
(* C4 *)

Overlay(base, over) ==
    [key \in DOMAIN base \cup DOMAIN over |->
        IF key \in DOMAIN over THEN over[key] ELSE base[key]]

-----------------------------------------------------------------------------
(* C5 *)

-----------------------------------------------------------------------------
(* C6 *)

\* C6: the output file is written at most once, only in the command line
\* run, only after check_binning, PIDService and get_pid_maps have completed
\* without error, and with the returned result; a failed run has written
\* nothing.
C6_WriteAfterSuccess ==
    /\ Len(outfile) <= 1
    /\ outfile # <<>> =>
        /\ mode = "cli" /\ pc = "exit" /\ err = "none"
        /\ checked # <<>> /\ pid_service /\ Returned
        /\ outfile[1] = Content(Out)
    /\ pc = "failed" => outfile = <<>> /\ err # "none"

\* A command line run that has written its one output file.
C6_Witness ==
    /\ mode = "cli" /\ pc = "exit" /\ Len(outfile) = 1
    /\ outfile[1].trck.map[1][1] > 0

-----------------------------------------------------------------------------
(* C7 *)

\* C7: when the four input maps share one binning and the call returns, the
\* ebins and czbins of the trck entry and of the cscd entry are those of
\* every input map.
C7_BinningPreserved ==
    Returned /\ DOMAIN reco_events.maps = Flavs /\ OneBinning =>
        \A f \in Flavs :
            /\ Out.trck.ebins = reco_events.maps[f].ebins
            /\ Out.trck.czbins = reco_events.maps[f].czbins
            /\ Out.cscd.ebins = reco_events.maps[f].ebins
            /\ Out.cscd.czbins = reco_events.maps[f].czbins

\* A returned result on two energy bins and one cos(zenith) bin.
C7_Witness ==
    /\ Returned
    /\ Out.trck.ebins = <<1, 10, 100>> /\ Out.trck.czbins = <<-1, 0>>
    /\ Out.cscd.ebins = <<1, 10, 100>> /\ Out.cscd.czbins = <<-1, 0>>

-----------------------------------------------------------------------------
(* Vocabulary of the numerical properties *)

Abs(x) == IF x < 0 THEN -x ELSE x

\* a and b differ by at most 2n+1 units of roundoff (2^-Prec) relative to x:
\* the distance two results can have that each carry the exact value x
\* through at most n roundings (n <= 6).
Near(a, b, x, n) == Abs(a - b) * Pow(2, Prec) <= (2 * n + 1) * x

\* A value every intermediate result of which is represented exactly.
Exact(x) == x <= Pow(2, Prec)

Weight(f, which, r, c) == At(InWeight(f, which), r, c)

\* Exact (real-number) values.
XCat(f, r, c) == InMap(f)[r][c] * (Weight(f, "trck", r, c) + Weight(f, "cscd", r, c))
XTot(r, c) ==
    XCat("nue_cc", r, c) + XCat("numu_cc", r, c) + XCat("nutau_cc", r, c)
        + XCat("nuall_nc", r, c)
XOut(which, r, c) ==
    InMap("nue_cc")[r][c] * Weight("nue_cc", which, r, c)
        + InMap("numu_cc")[r][c] * Weight("numu_cc", which, r, c)
        + InMap("nutau_cc")[r][c] * Weight("nutau_cc", which, r, c)
        + InMap("nuall_nc")[r][c] * Weight("nuall_nc", which, r, c)

\* event_map * (weight_track + weight_cascade) in the array arithmetic, and
\* its sum over the first n categories.
WSum(f, r, c) == fl(InMap(f)[r][c] * fl(Weight(f, "trck", r, c) + Weight(f, "cscd", r, c)))
RECURSIVE PartialW(_, _, _)
PartialW(r, c, n) ==
    IF n = 0 THEN 0 ELSE fl(PartialW(r, c, n - 1) + WSum(flavours[n], r, c))

\* The contributions of a category as the loop computes them.
CatSum(f, r, c) == fl(to_trck_map(heap, f)[r][c] + to_cscd_map(heap, f)[r][c])
OutSum(r, c) == fl(TrckOut[r][c] + CscdOut[r][c])

\* get_pid_maps as a function of the input heap h0 and of the order in which
\* the loop takes the categories: the heap at the return.
PidMaps(h0, order) == RunLoop(AllocMaps(h0), Out, order, 1)

\* The input with every event rate map scaled by k.
Scales == {0, 2, 3}
ScaledHeap(k) ==
    [ad \in DOMAIN heap_in |->
        IF ad <= 4
        THEN [r \in 1..Len(heap_in[ad]) |->
                [c \in 1..Len(heap_in[ad][1]) |-> fl(k * heap_in[ad][r][c])]]
        ELSE heap_in[ad]]

\* The orders in which the four categories can be taken.
Orders == {o \in [1..4 -> Flavs] : \A f \in Flavs : \E n \in 1..4 : o[n] = f}

-----------------------------------------------------------------------------
(* C8 *)

\* C8 as stated: in every bin, each category's track contribution plus its
\* cascade contribution equals event_map * (weight_track + weight_cascade),
\* and trck + cscd equals the sum of these over the four categories.
C8_ConservationExact ==
    Returned /\ AllPresent =>
        \A r \in Rows, c \in Cols :
            /\ \A f \in Flavs : CatSum(f, r, c) = WSum(f, r, c)
            /\ OutSum(r, c) = PartialW(r, c, 4)

\* C8 as amended: the two sides agree within floating-point tolerance (a few
\* units of roundoff relative to the exact value), and exactly whenever no
\* intermediate result is rounded; weight_track + weight_cascade need not
\* be 1.
C8_ConservationRounded ==
    Returned /\ AllPresent =>
        \A r \in Rows, c \in Cols :
            /\ \A f \in Flavs :
                /\ Near(CatSum(f, r, c), WSum(f, r, c), XCat(f, r, c), 2)
                /\ Exact(XCat(f, r, c)) =>
                      CatSum(f, r, c) = XCat(f, r, c) /\ WSum(f, r, c) = XCat(f, r, c)
            /\ Near(OutSum(r, c), PartialW(r, c, 4), XTot(r, c), 6)
            /\ Exact(XTot(r, c)) =>
                  OutSum(r, c) = XTot(r, c) /\ PartialW(r, c, 4) = XTot(r, c)

\* A returned result with a bin where rounding makes the two sides of the
\* conservation differ, for a category whose two weights do not sum to 1.
C8_Witness ==
    /\ Returned /\ AllPresent
    /\ \E r \in Rows, c \in Cols, f \in Flavs :
        /\ CatSum(f, r, c) # WSum(f, r, c)
        /\ Weight(f, "trck", r, c) + Weight(f, "cscd", r, c) > 1
        /\ OutSum(r, c) # PartialW(r, c, 4)

-----------------------------------------------------------------------------
(* C9 *)

ZeroInput == \A f \in Flavs, r \in Rows, c \in Cols : InMap(f)[r][c] = 0

-----------------------------------------------------------------------------
(* C10 *)

\* After the loop has taken the first i-1 categories, each accumulator holds
\* the sum, from zero and in that order, of exactly their contributions.
PrefixSums ==
    pc = "loop" /\ AllPresent =>
        \A r \in Rows, c \in Cols :
            /\ heap[reco_events_pid[1].trck.map][r][c]
                  = Partial(flavours, "trck", r, c, i - 1)
            /\ heap[reco_events_pid[1].cscd.map][r][c]
                  = Partial(flavours, "cscd", r, c, i - 1)

\* C10 as stated: the prefix sums, and for every order of the four
\* categories the same final maps as for the order of the code.
C10_OrderIndependentExact ==
    /\ PrefixSums
    /\ Returned /\ AllPresent =>
        \A o \in Orders : \A ho \in {PidMaps(heap_in, o)} :
            /\ ho[Out.trck.map] = TrckOut
            /\ ho[Out.cscd.map] = CscdOut

\* C10 as amended: the prefix sums, and for every order final maps that
\* agree with those of the code's order within floating-point tolerance, and
\* exactly whenever no partial sum is rounded.
C10_OrderIndependentRounded ==
    /\ PrefixSums
    /\ Returned /\ AllPresent =>
        \A o \in Orders : \A ho \in {PidMaps(heap_in, o)} :
            \A r \in Rows, c \in Cols :
                \A ot \in {ho[Out.trck.map][r][c]}, oc \in {ho[Out.cscd.map][r][c]},
                   xt \in {XOut("trck", r, c)}, xc \in {XOut("cscd", r, c)} :
                    /\ Near(ot, TrckOut[r][c], xt, 5)
                    /\ Near(oc, CscdOut[r][c], xc, 5)
                    /\ Exact(xt) => ot = xt /\ TrckOut[r][c] = xt
                    /\ Exact(xc) => oc = xc /\ CscdOut[r][c] = xc

\* A returned result that another order of the categories would change in
\* some bin, by rounding.
C10_Witness ==
    /\ Returned /\ AllPresent
    /\ \E o \in Orders : \E ho \in {PidMaps(heap_in, o)} : \E r \in Rows, c \in Cols :
        /\ ho[Out.trck.map][r][c] # TrckOut[r][c]
        /\ TrckOut[r][c] = Partial(flavours, "trck", r, c, 4)

====
